---- MODULE Spec2Model ----
(***************************************************************************)
(* lvmbeat: the heartbeat actor (actor.py, heartbeats.py, tools.py) and    *)
(* the outside monitor web application (monitor.py).                       *)
(*                                                                         *)
(* The two programs are separate processes.  Spec is the actor: the `set`  *)
(* command, BeatActor.update() and the update_network_status loop.         *)
(* CommandSpec is the `set` command alone, called with any name, with the  *)
(* outcome of each call kept.  WatchdogSpec is the update_network_status   *)
(* loop alone, with the results of its probes kept.  LoopsSpec is the two  *)
(* periodic tasks of the actor and BeatActor.stop().  IsoSpec is one call  *)
(* of timestamp_to_iso.  MonitorSpec is the monitor: the check_heartbeat   *)
(* loop and the routes.  All share the wall clock `now`, which advances in *)
(* steps of Tick.                                                          *)
(***************************************************************************)
EXTENDS Integers, Sequences, FiniteSets, TLC

(***************************************************************************)
(* Bounds of the model.                                                    *)
(***************************************************************************)
\* Seconds the clock advances in one step.
Tick == 10
\* Number of clock steps explored.
MaxTicks == 4
\* time.time() when the process starts (never 0 on a real clock).
StartTime == 1
\* Number of `set` commands that can be in flight at once.
MaxCmds == 2
\* Cap on the consecutive-failure count a Trigger accumulates.
MaxCount == 4
\* Cap on the emails of one kind counted within one episode.
MaxEmails == 2
\* Number of clock steps during which pings can still arrive, where pings
\* stop.
PingTicks == 1
\* Number of timestamps after the first that are converted, and the seconds
\* between one and the next.
MaxIso == 60
IsoStride == 2716993

(***************************************************************************)
(* Program constants.                                                      *)
(***************************************************************************)
\* self.timeout = self.config.get("timeout", 30)
timeout == 30
\* time() - self._last_emitted_ecp < 10
EcpMinInterval == 10
\* Trigger(n=3)
TriggerN == 3
\* await asyncio.sleep(15) in update_network_status
NetworkInterval == 15
\* self.config.get("outside_monitor", {}).get("interval", 15)
OutsideInterval == 15
\* repeat_every(seconds=10, ...) on check_heartbeat
CheckInterval == 10
\* MAX_TIME_TO_ALERT, from LVMBEAT_SEND_EMAIL_AFTER or the configuration
MAX_TIME_TO_ALERT == 10

\* The timestamp of test_timestamp_to_iso.
IsoBase == 1640198400

\* Python's None for an optional timestamp (timestamps are never negative).
None == -1

\* Python truthiness of an optional timestamp: None and 0 are falsy.
Truthy(x) == x # None /\ x # 0

\* The registered heartbeats, in registration order.
HeartbeatData ==
    << [name |-> "dome", critical |-> TRUE],
       [name |-> "sensor", critical |-> FALSE] >>

Names == {HeartbeatData[i].name : i \in 1..Len(HeartbeatData)}

Labels == {"lco", "outside"}

Cmds == 1..MaxCmds

VARIABLES
    now,               \* time.time()
    \* ---- the actor (actor.py)
    last_set,          \* Heartbeat.last_set of every registered heartbeat
    last_emitted_ecp,  \* BeatActor._last_emitted_ecp
    network_status,    \* BeatActor.network_status: label -> Trigger count
    cmd,               \* position of each `set` command task
    netPc,             \* position of the update_network_status task
    internet,          \* local `internet` of update_network_status
    netSleep,          \* seconds left of its asyncio.sleep(15)
    lastSend,          \* history: when the last `lvmecp heartbeat` was sent
    probes,            \* history: the last TriggerN probe results per label
    setAt,             \* history: when each heartbeat was last set by a command
    setOutcome,        \* history: how the latest `set` command left its handler
    outside_url,       \* whether an outside monitor URL is configured
    outPc,             \* position of the emit_outside task
    outSleep,          \* seconds left of its asyncio.sleep(interval)
    last_emitted_outside, \* BeatActor._last_emitted_outside
    stopped,           \* whether BeatActor.stop() has run
    \* ---- tools.py
    isoPc,             \* whether timestamp_to_iso is to be called or returned
    isoIn,             \* the argument of timestamp_to_iso
    isoOut,            \* what timestamp_to_iso returned for it
    \* ---- the monitor (monitor.py)
    active,            \* app.state.active
    last_seen,         \* app.state.last_seen
    enabled,           \* app.state.enabled
    started_at,        \* app.state.started_at
    chkPc,             \* position of the check_heartbeat loop
    chkSleep,          \* seconds left of the loop's asyncio.sleep(10)
    evalStart,         \* history: `active` when the latest evaluation began
    evalEnabled,       \* history: `enabled` as the latest evaluation read it
    evalSent,          \* history: what the latest evaluation has sent
    evalFailed,        \* history: whether a send of the latest evaluation raised
    downEmails,        \* history: "down" emails of the current episode
    recEmails,         \* history: "recovered" emails of the current recovery
    evalAt,            \* history: time.time() as the latest evaluation read it
    evalSeen,          \* history: `last_seen` as the latest evaluation read it
    pingSinceDown      \* history: a ping came after the latest evaluation
                       \* that took the "down" branch began

aggVars == <<last_set, last_emitted_ecp, cmd, lastSend>>

netVars == <<network_status, netPc, internet>>

monVars ==
    << active, last_seen, enabled, started_at, chkPc, evalStart, evalEnabled,
       evalSent, evalFailed, downEmails, recEmails, evalAt,
       evalSeen, pingSinceDown >>

obsVars == <<setAt, setOutcome>>

outVars == <<outside_url, outPc, last_emitted_outside, stopped>>

isoVars == <<isoPc, isoIn, isoOut>>

extVars == <<obsVars, outVars, isoVars>>

vars ==
    << now, aggVars, netVars, netSleep, probes, monVars, chkSleep, outSleep,
       extVars >>

(***************************************************************************)
(* heartbeats.py                                                           *)
(***************************************************************************)
\* Heartbeat.time_delta
time_delta(ls, t) == IF ls = None THEN None ELSE t - ls

\* seen_since with a heartbeat that was never set taken as seen.
seen_since_NoneSeen(ls, t, delta) ==
    [n \in Names |->
        LET heartbeat_delta == time_delta(ls[n], t)
        IN  heartbeat_delta = None \/ heartbeat_delta < delta]

\* seen_since with `<=` for `<`.
seen_since_Inclusive(ls, t, delta) ==
    [n \in Names |->
        LET heartbeat_delta == time_delta(ls[n], t)
        IN  heartbeat_delta # None /\ heartbeat_delta <= delta]

\* Heartbeats.seen_since
seen_since(ls, t, delta) ==
    [n \in Names |->
        LET heartbeat_delta == time_delta(ls[n], t)
        IN  heartbeat_delta # None /\ heartbeat_delta < delta]

(***************************************************************************)
(* tools.py: timestamp_to_iso.  A string is the sequence of its            *)
(* characters.                                                             *)
(***************************************************************************)
Digits == <<"0", "1", "2", "3", "4", "5", "6", "7", "8", "9">>

\* format(n, "0<width>d")
RECURSIVE Pad(_, _)
Pad(n, width) ==
    IF width = 0 THEN <<>>
    ELSE Pad(n \div 10, width - 1) \o <<Digits[(n % 10) + 1]>>

\* Days of the year before the first of month m.
DaysBeforeMonth(m, leap) ==
    <<0, 31, 59, 90, 120, 151, 181, 212, 243, 273, 304, 334>>[m]
        + (IF leap /\ m > 2 THEN 1 ELSE 0)

\* The date of a proleptic Gregorian ordinal (1 is 0001-01-01), by cycles
\* of 400, 100, 4 and 1 years, as datetime computes it.
ord2ymd(ordinal) ==
    LET n0 == ordinal - 1
        n400 == n0 \div 146097
        r400 == n0 % 146097
        n100 == r400 \div 36524
        r100 == r400 % 36524
        n4 == r100 \div 1461
        r4 == r100 % 1461
        n1 == r4 \div 365
        n == r4 % 365
        year == n400 * 400 + n100 * 100 + n4 * 4 + n1 + 1
        leap == n1 = 3 /\ (n4 # 24 \/ n100 = 3)
        month == CHOOSE m \in 1..12 :
                     /\ DaysBeforeMonth(m, leap) <= n
                     /\ m < 12 => DaysBeforeMonth(m + 1, leap) > n
    IN  IF n1 = 4 \/ n100 = 4
        THEN [year |-> year - 1, month |-> 12, day |-> 31]
        ELSE [year |-> year, month |-> month,
              day |-> n - DaysBeforeMonth(month, leap) + 1]

\* datetime.fromtimestamp(ts, timezone.utc)
fromtimestamp(ts) ==
    LET date == ord2ymd(ts \div 86400 + 719163)
        secs == ts % 86400
    IN  [year |-> date.year, month |-> date.month, day |-> date.day,
         hour |-> secs \div 3600, minute |-> (secs % 3600) \div 60,
         second |-> secs % 60]

\* datetime.isoformat(timespec="seconds") of a datetime in UTC
isoformat(dt) ==
    Pad(dt.year, 4) \o <<"-">> \o Pad(dt.month, 2) \o <<"-">>
        \o Pad(dt.day, 2) \o <<"T">> \o Pad(dt.hour, 2) \o <<":">>
        \o Pad(dt.minute, 2) \o <<":">> \o Pad(dt.second, 2)
        \o <<"+", "0", "0", ":", "0", "0">>

\* str.replace(old, new)
RECURSIVE replace(_, _, _)
replace(str, old, new) ==
    IF Len(str) < Len(old) THEN str
    ELSE IF SubSeq(str, 1, Len(old)) = old
    THEN new \o replace(SubSeq(str, Len(old) + 1, Len(str)), old, new)
    ELSE <<Head(str)>> \o replace(Tail(str), old, new)

\* timestamp_to_iso with the UTC offset left as isoformat writes it.
timestamp_to_iso_NoReplace(ts) ==
    IF ts = None THEN None
    ELSE isoformat(fromtimestamp(ts))

\* timestamp_to_iso(ts), timespec "seconds"
timestamp_to_iso(ts) ==
    IF ts = None THEN None
    ELSE replace(isoformat(fromtimestamp(ts)),
                 <<"+", "0", "0", ":", "0", "0">>, <<"Z">>)

\* The timestamps converted: None, the test's, and later ones.
IsoInputs == {None} \cup {IsoBase + k * IsoStride : k \in 0..MaxIso}

\* timestamp_to_iso is called with isoIn and returns.
CallTimestampToIso ==
    /\ isoPc = "call"
    /\ isoOut' = timestamp_to_iso(isoIn)
    /\ isoPc' = "returned"
    /\ UNCHANGED <<now, aggVars, netVars, netSleep, probes, monVars, chkSleep,
                   outSleep, obsVars, outVars, isoIn>>

(***************************************************************************)
(* lvmopstools.utils.Trigger with n = TriggerN and no delay: a counter of  *)
(* consecutive set() calls that reset() clears.                            *)
(***************************************************************************)
TriggerSet(count) == count + 1

TriggerReset(count) == 0

TriggerIsSet(count) == count >= TriggerN

(***************************************************************************)
(* BeatActor.update                                                        *)
(***************************************************************************)
\* The loop returning at any unseen heartbeat, critical or not.
CriticalMissing_AnyUnseen(seen, i) ==
    \E j \in i..Len(HeartbeatData) : seen[HeartbeatData[j].name] = FALSE

\* The loop over seen_hbs: TRUE when it returns at an unseen critical
\* heartbeat, scanning from position i in registration order.
RECURSIVE CriticalMissing(_, _)
CriticalMissing(seen, i) ==
    IF i > Len(HeartbeatData) THEN FALSE
    ELSE LET hb == HeartbeatData[i]
         IN  IF seen[hb.name] = FALSE /\ hb.critical = TRUE THEN TRUE
             ELSE CriticalMissing(seen, i + 1)

\* The loop returning only when every trigger is set.
NetworkDown_AllLabels(ns) == \A label \in Labels : TriggerIsSet(ns[label])

\* The loop over network_status: TRUE when some trigger is set.
NetworkDown(ns) == \E label \in Labels : TriggerIsSet(ns[label])

\* The throttle with the comparison turned round.
Throttled_Reversed(le, t) == Truthy(le) /\ t - le > EcpMinInterval

\* if self._last_emitted_ecp and time() - self._last_emitted_ecp < 10
Throttled(le, t) == Truthy(le) /\ t - le < EcpMinInterval

\* Where update() leaves: at one of its three returns, or at the send.
update(ls, ns, le, t) ==
    IF CriticalMissing(seen_since(ls, t, timeout), 1) THEN "critical"
    ELSE IF NetworkDown(ns) THEN "network"
    ELSE IF Throttled(le, t) THEN "throttle"
    ELSE "send"

\* The `set` command past its check of the name: Heartbeat.set(), then
\* update() up to its first suspension (the send) or to its return.
SetStep(c, heartbeat) ==
    /\ cmd[c] = "idle"
    /\ last_set' = [last_set EXCEPT ![heartbeat] = now]
    /\ IF update(last_set', network_status, last_emitted_ecp, now) = "send"
       THEN /\ cmd' = [cmd EXCEPT ![c] = "sending"]
            /\ lastSend' = now
       ELSE UNCHANGED <<cmd, lastSend>>
    /\ UNCHANGED <<now, last_emitted_ecp, netVars, netSleep, probes, monVars,
                   chkSleep, outSleep, outVars, isoVars>>

\* The `set` command on a registered heartbeat.
SetCmd(c, heartbeat) ==
    /\ heartbeat \in Names
    /\ SetStep(c, heartbeat)
    /\ UNCHANGED obsVars

\* The arguments `set` is called with: the registered names and one that
\* is not registered.
SetArgs == Names \cup {"nobody"}

\* The check of the name passing for every name.
Registered_Any(heartbeat) == TRUE

\* heartbeat in command.actor.heartbeats
Registered(heartbeat) == heartbeat \in Names

\* The `set` command with any argument, its outcome remembered:
\* command.fail() for a name that is not registered, else as above.
set(c, heartbeat) ==
    /\ cmd[c] = "idle"
    /\ IF ~Registered(heartbeat)
       THEN /\ setOutcome' = "failed"
            /\ UNCHANGED <<now, aggVars, netVars, netSleep, probes, monVars,
                           chkSleep, outSleep, setAt, outVars, isoVars>>
       ELSE /\ SetStep(c, heartbeat)
            /\ setAt' = [setAt EXCEPT ![heartbeat] = now]
            /\ setOutcome' = IF cmd'[c] = "sending" THEN "sending"
                             ELSE "finished"

\* The if/else after the send with the assignment made on both branches.
EmittedEcpAfter_Always(le, did_succeed, t) == t

\* _last_emitted_ecp after `if not cmd.status.did_succeed: ... else: ...`.
EmittedEcpAfter(le, did_succeed, t) == IF did_succeed THEN t ELSE le

\* send_command("lvmecp", "heartbeat") completes; the command finishes.
SendDone(c, did_succeed) ==
    /\ cmd[c] = "sending"
    /\ cmd' = [cmd EXCEPT ![c] = "idle"]
    /\ last_emitted_ecp' = EmittedEcpAfter(last_emitted_ecp, did_succeed, now)
    /\ UNCHANGED <<now, last_set, lastSend, netVars, netSleep, probes,
                   monVars, chkSleep, outSleep, extVars>>

\* The command task is cancelled while update() is suspended in the send:
\* CancelledError leaves update() at the await.
CancelCmd(c) ==
    /\ cmd[c] = "sending"
    /\ cmd' = [cmd EXCEPT ![c] = "idle"]
    /\ UNCHANGED <<now, last_set, last_emitted_ecp, lastSend, netVars,
                   netSleep, probes, monVars, chkSleep, outSleep, extVars>>

(***************************************************************************)
(* BeatActor.update_network_status.  is_host_up returns a boolean, or      *)
(* raises what nmap raises.                                                *)
(***************************************************************************)
ProbeResults == {"up", "down", "raise"}

\* The blocks with the `lco` result fed to both triggers.
TriggerUpdate_LcoForBoth(ns, internetUp, lcoUp) ==
    [ns EXCEPT
        !["outside"] = IF lcoUp THEN TriggerReset(@) ELSE TriggerSet(@),
        !["lco"] = IF lcoUp THEN TriggerReset(@) ELSE TriggerSet(@)]

\* Only the first if/else block: the 'lco' trigger is left for later.
TriggerUpdate_OutsideOnly(ns, internetUp, lcoUp) ==
    [ns EXCEPT
        !["outside"] = IF internetUp THEN TriggerReset(@) ELSE TriggerSet(@)]

\* The two if/else blocks that feed the probe results to the triggers.
TriggerUpdate(ns, internetUp, lcoUp) ==
    [ns EXCEPT
        !["outside"] = IF internetUp THEN TriggerReset(@) ELSE TriggerSet(@),
        !["lco"] = IF lcoUp THEN TriggerReset(@) ELSE TriggerSet(@)]

\* internet = await is_host_up("8.8.8.8")
ProbeInternet(r) ==
    /\ netPc = "probe_internet"
    /\ r = "down" => network_status["outside"] < MaxCount
    /\ IF r = "raise"
       THEN /\ netPc' = "dead"
            /\ UNCHANGED internet
       ELSE /\ netPc' = "probe_lco"
            /\ internet' = (r = "up")
    /\ UNCHANGED <<now, aggVars, network_status, netSleep, probes, monVars,
                   chkSleep, outSleep, extVars>>

\* lco = await is_host_up("10.8.8.46"), then the trigger updates and the
\* start of the sleep.
ProbeLcoStep(r) ==
    /\ netPc = "probe_lco"
    /\ r = "down" => network_status["lco"] < MaxCount
    /\ IF r = "raise"
       THEN /\ netPc' = "dead"
            /\ UNCHANGED <<network_status, netSleep>>
       ELSE /\ network_status' = TriggerUpdate(network_status, internet, r = "up")
            /\ netPc' = "sleep"
            /\ netSleep' = NetworkInterval
    /\ UNCHANGED <<now, aggVars, internet, monVars, chkSleep, outSleep,
                   extVars>>

ProbeLco(r) == ProbeLcoStep(r) /\ UNCHANGED probes

\* The same step, with the results of a completed cycle remembered.
Remember(h, r) ==
    IF Len(h) < TriggerN THEN Append(h, r) ELSE Append(Tail(h), r)

ProbeLcoObserved(r) ==
    /\ ProbeLcoStep(r)
    /\ probes' = IF r = "raise" THEN probes
                 ELSE [probes EXCEPT !["outside"] = Remember(@, internet),
                                     !["lco"] = Remember(@, r = "up")]

\* asyncio.sleep(15) ends; the loop starts its next cycle.
NetworkWake ==
    /\ netPc = "sleep"
    /\ netSleep = 0
    /\ netPc' = "probe_internet"
    /\ UNCHANGED <<now, aggVars, network_status, internet, netSleep, probes,
                   monVars, chkSleep, outSleep, extVars>>

(***************************************************************************)
(* BeatActor.emit_outside and BeatActor.stop.                              *)
(***************************************************************************)
\* What `await client.get(url)` and raise_for_status() come to: a 2xx
\* response, another status (raise_for_status raises), or get() raising.
GetResults == {"ok", "status", "raise"}

\* The try block with the assignment made whatever the outcome.
EmittedOutsideAfter_Always(le, r, t) == t

\* _last_emitted_outside after the try/except/else of one iteration.
EmittedOutsideAfter(le, r, t) == IF r = "ok" THEN t ELSE le

\* The task starts: no URL, it returns; else it enters the loop.
EmitStart ==
    /\ outPc = "start"
    /\ outPc' = IF ~outside_url THEN "returned" ELSE "get"
    /\ UNCHANGED <<now, aggVars, netVars, netSleep, probes, monVars, chkSleep,
                   outSleep, obsVars, outside_url, last_emitted_outside,
                   stopped, isoVars>>

\* The GET completes or raises; then the loop starts its sleep.
EmitGet(r) ==
    /\ outPc = "get"
    /\ last_emitted_outside' = EmittedOutsideAfter(last_emitted_outside, r, now)
    /\ outPc' = "sleep"
    /\ outSleep' = OutsideInterval
    /\ UNCHANGED <<now, aggVars, netVars, netSleep, probes, monVars, chkSleep,
                   obsVars, outside_url, stopped, isoVars>>

\* asyncio.sleep(interval) ends; the loop starts its next iteration.
EmitWake ==
    /\ outPc = "sleep"
    /\ outSleep = 0
    /\ outPc' = "get"
    /\ UNCHANGED <<now, aggVars, netVars, netSleep, probes, monVars, chkSleep,
                   outSleep, obsVars, outside_url, last_emitted_outside,
                   stopped, isoVars>>

\* BeatActor.stop: cancel_task(self._emit_outside_task), then the parent's
\* stop().  The update_network_status task is left as it is.
stop ==
    /\ ~stopped
    /\ stopped' = TRUE
    /\ outPc' = IF outPc = "returned" THEN "returned" ELSE "cancelled"
    /\ UNCHANGED <<now, aggVars, netVars, netSleep, probes, monVars, chkSleep,
                   outSleep, obsVars, outside_url, last_emitted_outside,
                   isoVars>>

(***************************************************************************)
(* monitor.py: check_heartbeat, run by fastapi_utils' repeat_every every   *)
(* CheckInterval seconds, first at startup (lifespan).  The routes are     *)
(* plain functions, which FastAPI runs in worker threads: they interleave  *)
(* with check_heartbeat between its calls, not only at its await.          *)
(***************************************************************************)
\* check_heartbeat with `not app.state.active` left out of the second test.
check_heartbeat_NoActiveGuard(en, act, ls, sa, t) ==
    IF ~en THEN "return"
    ELSE IF ~Truthy(ls)
         THEN IF ~act /\ t - sa >= MAX_TIME_TO_ALERT THEN "down" ELSE "return"
    ELSE IF t - ls > MAX_TIME_TO_ALERT THEN "down"
    ELSE IF act /\ t - ls < MAX_TIME_TO_ALERT THEN "recover"
    ELSE "return"

\* check_heartbeat without the test of app.state.enabled.
check_heartbeat_IgnoresEnabled(en, act, ls, sa, t) ==
    IF ~Truthy(ls)
    THEN IF ~act /\ t - sa >= MAX_TIME_TO_ALERT THEN "down" ELSE "return"
    ELSE IF ~act /\ t - ls > MAX_TIME_TO_ALERT THEN "down"
    ELSE IF act /\ t - ls < MAX_TIME_TO_ALERT THEN "recover"
    ELSE "return"

\* check_heartbeat with the all-clear sent whenever the alert is active.
check_heartbeat_RecoverAlways(en, act, ls, sa, t) ==
    IF ~en THEN "return"
    ELSE IF ~Truthy(ls)
         THEN IF ~act /\ t - sa >= MAX_TIME_TO_ALERT THEN "down" ELSE "return"
    ELSE IF ~act /\ t - ls > MAX_TIME_TO_ALERT THEN "down"
    ELSE IF act THEN "recover"
    ELSE "return"

\* check_heartbeat with `>=` for `>` in the test of a monitor that was pinged.
check_heartbeat_GraceInclusive(en, act, ls, sa, t) ==
    IF ~en THEN "return"
    ELSE IF ~Truthy(ls)
         THEN IF ~act /\ t - sa >= MAX_TIME_TO_ALERT THEN "down" ELSE "return"
    ELSE IF ~act /\ t - ls >= MAX_TIME_TO_ALERT THEN "down"
    ELSE IF act /\ t - ls < MAX_TIME_TO_ALERT THEN "recover"
    ELSE "return"

\* The branch check_heartbeat takes: "down" calls send_internet_down_email,
\* "recover" sends the all-clear, "return" does nothing.
check_heartbeat(en, act, ls, sa, t) ==
    IF ~en THEN "return"
    ELSE IF ~Truthy(ls)
         THEN IF ~act /\ t - sa >= MAX_TIME_TO_ALERT THEN "down" ELSE "return"
    ELSE IF ~act /\ t - ls > MAX_TIME_TO_ALERT THEN "down"
    ELSE IF act /\ t - ls < MAX_TIME_TO_ALERT THEN "recover"
    ELSE "return"

\* An iteration begins: the guards, up to the first send or to the return.
CheckStart ==
    /\ chkPc = "sleep"
    /\ chkSleep = 0
    /\ evalStart' = active
    /\ evalEnabled' = enabled
    /\ evalSent' = <<>>
    /\ evalFailed' = FALSE
    /\ evalAt' = now
    /\ evalSeen' = last_seen
    /\ LET branch == check_heartbeat(enabled, active, last_seen, started_at, now)
       IN  /\ pingSinceDown' = IF branch = "down" THEN FALSE ELSE pingSinceDown
           /\ IF branch = "down"
              THEN chkPc' = "email_down" /\ UNCHANGED chkSleep
              ELSE IF branch = "recover"
              THEN chkPc' = "email_rec" /\ UNCHANGED chkSleep
              ELSE chkPc' = "sleep" /\ chkSleep' = CheckInterval
    /\ UNCHANGED <<now, aggVars, netVars, netSleep, probes, active, last_seen,
                   enabled, started_at, downEmails, recEmails, outSleep,
                   extVars>>

\* repeat_every(..., raise_exceptions=True) when the iteration raises: the
\* flag is documented to end the repetition; fastapi_utils releases that
\* deprecate the flag ignore it and go on to the next sleep.  stops is
\* which of the two the installed release does.
AfterException(stops) == IF stops THEN "dead" ELSE "sleep"

\* send_internet_down_email without its last assignment.
ActiveAfter_Never(pc) == FALSE

\* `active` after send_internet_down_email (TRUE) or the all-clear (FALSE).
ActiveAfter(pc) == pc = "slack_down"

\* send_email(...): raises (settings missing, or the mailer raises) or sends.
SendEmail(ok, stops) ==
    /\ chkPc \in {"email_down", "email_rec"}
    /\ ok => ~stops
    /\ IF ok
       THEN /\ chkPc = "email_down" => downEmails < MaxEmails
            /\ chkPc = "email_rec" => recEmails < MaxEmails
            /\ evalSent' = Append(evalSent, chkPc)
            /\ downEmails' = IF chkPc = "email_down" THEN downEmails + 1 ELSE 0
            /\ recEmails' = IF chkPc = "email_rec" THEN recEmails + 1 ELSE 0
            /\ chkPc' = IF chkPc = "email_down" THEN "slack_down" ELSE "slack_rec"
            /\ UNCHANGED <<evalFailed, chkSleep>>
       ELSE /\ evalFailed' = TRUE
            /\ chkPc' = AfterException(stops)
            /\ chkSleep' = CheckInterval
            /\ UNCHANGED <<evalSent, downEmails, recEmails>>
    /\ UNCHANGED <<now, aggVars, netVars, netSleep, probes, active, last_seen,
                   enabled, started_at, evalStart, evalEnabled, evalAt,
                   evalSeen, pingSinceDown, outSleep, extVars>>

\* await post_to_slack(...) completes or raises; then app.state.active is set.
PostToSlack(ok, stops) ==
    /\ chkPc \in {"slack_down", "slack_rec"}
    /\ ok => ~stops
    /\ IF ok
       THEN /\ evalSent' = Append(evalSent, chkPc)
            /\ active' = ActiveAfter(chkPc)
            /\ chkPc' = "sleep"
            /\ UNCHANGED evalFailed
       ELSE /\ evalFailed' = TRUE
            /\ chkPc' = AfterException(stops)
            /\ UNCHANGED <<evalSent, active>>
    /\ chkSleep' = CheckInterval
    /\ UNCHANGED <<now, aggVars, netVars, netSleep, probes, last_seen, enabled,
                   started_at, evalStart, evalEnabled, downEmails, recEmails,
                   evalAt, evalSeen, pingSinceDown, outSleep, extVars>>

\* GET /heartbeat
route_get_heartbeat ==
    /\ last_seen' = now
    /\ pingSinceDown' = TRUE
    /\ UNCHANGED <<now, aggVars, netVars, netSleep, probes, active, enabled,
                   started_at, chkPc, chkSleep, evalStart, evalEnabled,
                   evalSent, evalFailed, downEmails, recEmails, evalAt,
                   evalSeen, outSleep, extVars>>

\* GET /enable
route_get_heartbeat_enable ==
    /\ enabled' = TRUE
    /\ UNCHANGED <<now, aggVars, netVars, netSleep, probes, active, last_seen,
                   started_at, chkPc, chkSleep, evalStart, evalEnabled,
                   evalSent, evalFailed, downEmails, recEmails, evalAt,
                   evalSeen, pingSinceDown, outSleep, extVars>>

\* GET /disable
route_get_heartbeat_disable ==
    /\ enabled' = FALSE
    /\ UNCHANGED <<now, aggVars, netVars, netSleep, probes, active, last_seen,
                   started_at, chkPc, chkSleep, evalStart, evalEnabled,
                   evalSent, evalFailed, downEmails, recEmails, evalAt,
                   evalSeen, pingSinceDown, outSleep, extVars>>

(***************************************************************************)
(* The clock: time passes, and the pending sleeps run down.                *)
(***************************************************************************)
Elapse(left) == IF left > Tick THEN left - Tick ELSE 0

AdvanceClock ==
    /\ now + Tick <= StartTime + MaxTicks * Tick
    /\ now' = now + Tick
    /\ netSleep' = Elapse(netSleep)
    /\ chkSleep' = Elapse(chkSleep)
    /\ outSleep' = Elapse(outSleep)
    /\ UNCHANGED <<aggVars, netVars, probes, monVars, extVars>>

\* BeatActor.__init__: nothing seen or emitted, both triggers clear, the
\* update_network_status task created.
ActorInit ==
    /\ last_set = [n \in Names |-> None]
    /\ last_emitted_ecp = None
    /\ network_status = [l \in Labels |-> 0]
    /\ cmd = [c \in Cmds |-> "idle"]
    /\ netPc = "probe_internet"
    /\ internet = TRUE
    /\ netSleep = 0
    /\ lastSend = None
    /\ probes = [l \in Labels |-> <<>>]
    /\ setAt = [n \in Names |-> None]
    /\ setOutcome = "none"
    /\ outPc = "start"
    /\ outSleep = 0
    /\ last_emitted_outside = None
    /\ stopped = FALSE

\* app.state at import, and the first check_heartbeat due at startup.
MonitorInit ==
    /\ active = FALSE
    /\ last_seen = None
    /\ enabled = TRUE
    /\ started_at = StartTime
    /\ chkPc = "sleep"
    /\ chkSleep = 0
    /\ evalStart = FALSE
    /\ evalEnabled = TRUE
    /\ evalSent = <<>>
    /\ evalFailed = FALSE
    /\ downEmails = 0
    /\ recEmails = 0
    /\ evalAt = None
    /\ evalSeen = None
    /\ pingSinceDown = FALSE

\* Nothing converted yet.
ToolsInit == isoPc = "call" /\ isoIn = None /\ isoOut = <<>>

Init ==
    /\ now = StartTime
    /\ ActorInit
    /\ outside_url = TRUE
    /\ MonitorInit
    /\ ToolsInit

\* The actor.
Next ==
    \/ \E c \in Cmds, heartbeat \in Names : SetCmd(c, heartbeat)
    \/ \E c \in Cmds, did_succeed \in BOOLEAN : SendDone(c, did_succeed)
    \/ \E c \in Cmds : CancelCmd(c)
    \/ \E r \in ProbeResults : ProbeInternet(r)
    \/ \E r \in ProbeResults : ProbeLco(r)
    \/ NetworkWake
    \/ AdvanceClock

Spec == Init /\ [][Next]_vars

\* The `set` command alone, called with any name, its outcomes remembered;
\* no Trigger is ever set.
CommandNext ==
    \/ \E c \in Cmds, heartbeat \in SetArgs : set(c, heartbeat)
    \/ \E c \in Cmds, did_succeed \in BOOLEAN : SendDone(c, did_succeed)
    \/ AdvanceClock

CommandSpec == Init /\ [][CommandNext]_vars

\* The two periodic tasks of the actor and stop(), with or without an
\* outside monitor URL.
LoopsInit ==
    /\ now = StartTime
    /\ ActorInit
    /\ outside_url \in BOOLEAN
    /\ MonitorInit
    /\ ToolsInit

LoopsNext ==
    \/ EmitStart
    \/ \E r \in GetResults : EmitGet(r)
    \/ EmitWake
    \/ \E r \in ProbeResults : ProbeInternet(r)
    \/ \E r \in ProbeResults : ProbeLco(r)
    \/ NetworkWake
    \/ stop
    \/ AdvanceClock

LoopsSpec == LoopsInit /\ [][LoopsNext]_vars

\* timestamp_to_iso called once, with any of the timestamps.
IsoInit ==
    /\ now = StartTime
    /\ ActorInit
    /\ outside_url = TRUE
    /\ MonitorInit
    /\ isoPc = "call"
    /\ isoIn \in IsoInputs
    /\ isoOut = <<>>

IsoNext == CallTimestampToIso

IsoSpec == IsoInit /\ [][IsoNext]_vars

\* The update_network_status loop alone, its probe results remembered.
WatchdogNext ==
    \/ \E r \in ProbeResults : ProbeInternet(r)
    \/ \E r \in ProbeResults : ProbeLcoObserved(r)
    \/ NetworkWake
    \/ AdvanceClock

WatchdogSpec == Init /\ [][WatchdogNext]_vars

\* The monitor.
MonitorNext ==
    \/ CheckStart
    \/ \E ok \in BOOLEAN, stops \in BOOLEAN : SendEmail(ok, stops)
    \/ \E ok \in BOOLEAN, stops \in BOOLEAN : PostToSlack(ok, stops)
    \/ route_get_heartbeat
    \/ route_get_heartbeat_enable
    \/ route_get_heartbeat_disable
    \/ AdvanceClock

MonitorSpec == Init /\ [][MonitorNext]_vars

\* The last instant at which a ping can arrive, and the last of the clock.
PingEnd == StartTime + PingTicks * Tick

ClockEnd == StartTime + MaxTicks * Tick

\* GET /heartbeat while pings still arrive.
route_get_heartbeat_until == now <= PingEnd /\ route_get_heartbeat

\* The monitor left enabled, with sends that succeed and pings that stop
\* after PingEnd.  The event loop runs the check_heartbeat task whenever it
\* can go on, and time passes.
AlertNext ==
    \/ CheckStart
    \/ SendEmail(TRUE, FALSE)
    \/ PostToSlack(TRUE, FALSE)
    \/ route_get_heartbeat_until
    \/ route_get_heartbeat_enable
    \/ AdvanceClock

AlertSpec ==
    /\ Init
    /\ [][AlertNext]_vars
    /\ WF_vars(CheckStart)
    /\ WF_vars(SendEmail(TRUE, FALSE))
    /\ WF_vars(PostToSlack(TRUE, FALSE))
    /\ WF_vars(AdvanceClock)

(***************************************************************************)
(* Properties of the Aggregator (Spec).                                    *)
(***************************************************************************)
\* A step in which command c reaches the send of `lvmecp heartbeat`.
Sends(c) == cmd[c] = "idle" /\ cmd'[c] = "sending"

\* C1: any two downstream sends are at least 10 seconds apart, whatever the
\* interleaving of `set` commands, evaluations suspended in the send included.
C1_SendsTenSecondsApart ==
    [][\A c \in Cmds :
          (Sends(c) /\ lastSend # None) => now - lastSend >= EcpMinInterval]_vars

\* C2: no evaluation sends the downstream command while a heartbeat
\* registered with critical=true was never set or was last set `timeout`
\* seconds ago or more.
C2_NoSendWithStaleCritical ==
    [][\A c \in Cmds :
          Sends(c) =>
              \A i \in 1..Len(HeartbeatData) :
                  HeartbeatData[i].critical =>
                      /\ last_set'[HeartbeatData[i].name] # None
                      /\ now - last_set'[HeartbeatData[i].name] < timeout]_vars

\* C2 witness: an evaluation has just run for a fresh non-critical heartbeat
\* while the critical one was stale; no Trigger is tripped and the throttle
\* does not apply, and nothing was sent at this instant.
C2_Witness ==
    /\ last_set["sensor"] = now
    /\ last_set["dome"] # None
    /\ now - last_set["dome"] >= timeout
    /\ \A l \in Labels : network_status[l] = 0
    /\ last_emitted_ecp # None
    /\ now - last_emitted_ecp >= EcpMinInterval
    /\ lastSend # now

\* C3: no evaluation sends the downstream command while the 'lco' or the
\* 'outside' Trigger is tripped.
C3_NoSendWhileTripped ==
    [][\A c \in Cmds :
          Sends(c) => \A l \in Labels : network_status[l] < TriggerN]_vars

\* C3 witness: every heartbeat was set at this instant, a Trigger is
\* tripped, and nothing was ever sent.
C3_Witness ==
    /\ \A n \in Names : last_set[n] = now
    /\ \E l \in Labels : network_status[l] >= TriggerN
    /\ last_emitted_ecp = None
    /\ lastSend = None

\* C4: an evaluation in which every critical heartbeat is fresh, no Trigger
\* is tripped and the 10-second throttle does not apply sends the downstream
\* command, whatever the state of the non-critical heartbeats: a step that
\* starts no send under these conditions is no `set` command.
C4_NonCriticalNeverBlocks ==
    [][( /\ cmd' = cmd
         /\ netPc' = netPc
         /\ now' = now
         /\ \A i \in 1..Len(HeartbeatData) :
               HeartbeatData[i].critical =>
                   /\ last_set'[HeartbeatData[i].name] # None
                   /\ now - last_set'[HeartbeatData[i].name] < timeout
         /\ \A l \in Labels : network_status[l] < TriggerN
         /\ (last_emitted_ecp = None
                 \/ now - last_emitted_ecp >= EcpMinInterval) )
       => \A c \in Cmds, h \in Names : ~SetCmd(c, h)]_vars

\* C4 witness: a send is in flight although the non-critical heartbeat was
\* never set.
C4_Witness ==
    /\ \E c \in Cmds : cmd[c] = "sending"
    /\ last_set["sensor"] = None

\* C14: _last_emitted_ecp changes only when a downstream command completes
\* successfully, and then to the time of that completion; a command that
\* fails or an evaluation cancelled in the send leaves it unchanged and
\* sends nothing more; so does an evaluation that returns early; the value
\* never decreases.
C14_EmittedOnlyAfterSuccess ==
    [][/\ last_emitted_ecp' >= last_emitted_ecp
       /\ last_emitted_ecp' # last_emitted_ecp =>
              /\ last_emitted_ecp' = now
              /\ \E c \in Cmds : SendDone(c, TRUE)
       /\ \A c \in Cmds :
              ( /\ cmd[c] = "sending"
                /\ cmd'[c] = "idle"
                /\ (SendDone(c, FALSE) \/ CancelCmd(c)) ) =>
                  /\ last_emitted_ecp' = last_emitted_ecp
                  /\ lastSend' = lastSend
                  /\ \A d \in Cmds : cmd'[d] = "sending" => cmd[d] = "sending"
      ]_vars

\* C14 witness: the latest send, made after the last successful one, has
\* ended without success and no command is in flight.
C14_Witness ==
    /\ last_emitted_ecp # None
    /\ lastSend # None
    /\ lastSend > last_emitted_ecp
    /\ now > lastSend
    /\ \A c \in Cmds : cmd[c] = "idle"

(***************************************************************************)
(* Properties of the `set` command (CommandSpec).                          *)
(***************************************************************************)
\* C11: `set` with a name that is not registered fails and changes nothing:
\* no record is added, no last_set changes, nothing is evaluated or sent
\* and _last_emitted_ecp keeps its value.
C11_UnknownNameFailsWithoutEffect ==
    [][\A c \in Cmds, h \in SetArgs \ Names :
          set(c, h) =>
              /\ setOutcome' = "failed"
              /\ DOMAIN last_set' = Names
              /\ last_set' = last_set
              /\ cmd' = cmd
              /\ lastSend' = lastSend
              /\ last_emitted_ecp' = last_emitted_ecp]_vars

\* C11 witness: a `set` with an unregistered name has just failed, after a
\* heartbeat was set and sent long enough ago that an evaluation would
\* send again.
C11_Witness ==
    /\ setOutcome = "failed"
    /\ last_set["dome"] # None
    /\ now - last_set["dome"] < timeout
    /\ lastSend # None
    /\ lastSend < now
    /\ last_emitted_ecp # None
    /\ now - last_emitted_ecp >= EcpMinInterval
    /\ \A c \in Cmds : cmd[c] = "idle"

\* The thresholds seen_since is asked with.
Thresholds == {1, Tick, timeout, timeout + Tick}

OnlyDomeSeen == [n \in Names |-> n = "dome"]

\* C15 as stated: with nothing set or emitted yet, `set dome` leaves
\* seen_since(30) at {dome: true, sensor: false} and its evaluation does not
\* send; `set sensor` called next, with nothing emitted, leaves both fresh
\* and its evaluation sends.
C15_DomeAloneDoesNotSend ==
    [][\A c \in Cmds :
          /\ ( /\ \A n \in Names : last_set[n] = None
               /\ lastSend = None
               /\ set(c, "dome") )
             => /\ seen_since(last_set', now, timeout) = OnlyDomeSeen
                /\ ~Sends(c)
          /\ ( /\ last_set["sensor"] = None
               /\ last_set["dome"] # None
               /\ now - last_set["dome"] < timeout
               /\ lastSend = None
               /\ set(c, "sensor") )
             => /\ \A n \in Names : seen_since(last_set', now, timeout)[n]
                /\ Sends(c)]_vars

\* C15 as amended: with nothing set or emitted yet, `set dome` leaves
\* seen_since(30) at {dome: true, sensor: false} and its evaluation sends;
\* `set sensor` called after that send succeeded, less than 10 seconds
\* later, leaves both fresh and sends nothing more.
C15_DomeAloneSendsOnce ==
    [][\A c \in Cmds :
          /\ ( /\ \A n \in Names : last_set[n] = None
               /\ lastSend = None
               /\ set(c, "dome") )
             => /\ seen_since(last_set', now, timeout) = OnlyDomeSeen
                /\ Sends(c)
                /\ lastSend' = now
          /\ ( /\ last_set["sensor"] = None
               /\ last_set["dome"] # None
               /\ now - last_set["dome"] < timeout
               /\ last_emitted_ecp # None
               /\ last_emitted_ecp >= lastSend
               /\ now - last_emitted_ecp < EcpMinInterval
               /\ set(c, "sensor") )
             => /\ \A n \in Names : seen_since(last_set', now, timeout)[n]
                /\ cmd' = cmd
                /\ lastSend' = lastSend]_vars

\* C15 witness: `set sensor` has just finished without a send, dome having
\* been set and its heartbeat sent and acknowledged at the same instant.
C15_Witness ==
    /\ setOutcome = "finished"
    /\ setAt["sensor"] = now
    /\ setAt["dome"] = now
    /\ lastSend = now
    /\ last_emitted_ecp = now
    /\ \A c \in Cmds : cmd[c] = "idle"

(***************************************************************************)
(* Properties of timestamp_to_iso (IsoSpec).                               *)
(***************************************************************************)
\* The number a run of digit characters writes.
RECURSIVE Number(_)
Number(str) ==
    IF str = <<>> THEN 0
    ELSE 10 * Number(SubSeq(str, 1, Len(str) - 1))
             + (CHOOSE d \in 0..9 : Digits[d + 1] = str[Len(str)])

\* Days from 1970-01-01 to a date of the Gregorian calendar, counted by
\* eras of 400 years that begin on the first of March.
DaysFromCivil(y, m, d) ==
    LET yy == IF m <= 2 THEN y - 1 ELSE y
        era == yy \div 400
        yoe == yy - era * 400
        doy == (153 * (IF m > 2 THEN m - 3 ELSE m + 9) + 2) \div 5 + d - 1
        doe == yoe * 365 + yoe \div 4 - yoe \div 100 + doy
    IN  era * 146097 + doe - 719468

\* The epoch second that a string YYYY-MM-DDTHH:MM:SSZ names.
EpochOf(str) ==
    DaysFromCivil(Number(SubSeq(str, 1, 4)), Number(SubSeq(str, 6, 7)),
                  Number(SubSeq(str, 9, 10))) * 86400
        + Number(SubSeq(str, 12, 13)) * 3600
        + Number(SubSeq(str, 15, 16)) * 60
        + Number(SubSeq(str, 18, 19))

\* C17: timestamp_to_iso returns None for None; for an integer epoch
\* timestamp it returns YYYY-MM-DDTHH:MM:SSZ, the UTC time of that second,
\* and "2021-12-22T18:40:00Z" for 1640198400.
C17_TimestampToIso ==
    isoPc = "returned" =>
        IF isoIn = None THEN isoOut = None
        ELSE /\ Len(isoOut) = 20
             /\ \A i \in {1, 2, 3, 4, 6, 7, 9, 10, 12, 13, 15, 16, 18, 19} :
                    \E d \in 1..10 : isoOut[i] = Digits[d]
             /\ isoOut[5] = "-" /\ isoOut[8] = "-" /\ isoOut[11] = "T"
             /\ isoOut[14] = ":" /\ isoOut[17] = ":" /\ isoOut[20] = "Z"
             /\ Number(SubSeq(isoOut, 6, 7)) \in 1..12
             /\ Number(SubSeq(isoOut, 9, 10)) \in 1..31
             /\ Number(SubSeq(isoOut, 12, 13)) \in 0..23
             /\ Number(SubSeq(isoOut, 15, 16)) \in 0..59
             /\ Number(SubSeq(isoOut, 18, 19)) \in 0..59
             /\ EpochOf(isoOut) = isoIn
             /\ isoIn = 1640198400 =>
                    isoOut = << "2", "0", "2", "1", "-", "1", "2", "-", "2",
                                "2", "T", "1", "8", ":", "4", "0", ":", "0",
                                "0", "Z" >>

\* C17 witness: the timestamp of the test has been converted.
C17_Witness ==
    /\ isoPc = "returned"
    /\ isoIn = IsoBase
    /\ isoOut # <<>>

(***************************************************************************)
(* Properties of the periodic tasks (LoopsSpec).                           *)
(***************************************************************************)
\* C13: once stop() has run, both periodic loops have ended: no step probes
\* a host, updates a Trigger or pings the outside monitor.
C13_StopEndsEveryLoop ==
    [][stopped =>
          /\ netPc' = netPc
          /\ internet' = internet
          /\ network_status' = network_status
          /\ outPc' = outPc
          /\ last_emitted_outside' = last_emitted_outside]_vars

\* C16: with no URL configured emit_outside returns without looping or
\* sending; with a URL, a GET that raises or answers with a non-2xx status
\* leaves _last_emitted_outside unchanged and the loop goes on to its next
\* sleep; _last_emitted_outside changes only in an iteration whose GET
\* succeeded, to the time of that iteration.
C16_EmitOutsideOutcomes ==
    [][/\ ~outside_url =>
              /\ outPc' \in {"start", "returned", "cancelled"}
              /\ last_emitted_outside' = None
       /\ last_emitted_outside' # last_emitted_outside =>
              /\ last_emitted_outside' = now
              /\ EmitGet("ok")
       /\ \A r \in GetResults \ {"ok"} :
              (outPc = "get" /\ EmitGet(r)) =>
                  /\ last_emitted_outside' = last_emitted_outside
                  /\ outPc' = "sleep"
                  /\ outSleep' = OutsideInterval]_vars

\* C16 witness: an iteration has just ended, at a later time than the last
\* successful one, without touching _last_emitted_outside, and the loop is
\* at the start of its sleep.
C16_Witness ==
    /\ outside_url
    /\ outPc = "sleep"
    /\ outSleep = OutsideInterval
    /\ last_emitted_outside # None
    /\ last_emitted_outside < now

(***************************************************************************)
(* Properties of the Alert State Machine (MonitorSpec).                    *)
(***************************************************************************)
\* C5: when no send raised, an evaluation that turned `active` on sent
\* exactly one "down" notification (email, then chat), one that turned it
\* off sent exactly one "recovered" notification, and one that left it
\* unchanged sent nothing.
C5_OneNotificationPerTransition ==
    (chkPc = "sleep" /\ ~evalFailed) =>
        /\ (~evalStart /\ active) => evalSent = <<"email_down", "slack_down">>
        /\ (evalStart /\ ~active) => evalSent = <<"email_rec", "slack_rec">>
        /\ (evalStart = active) => evalSent = <<>>

\* C5 witness: an evaluation has completed the recovery of an earlier alert.
C5_Witness ==
    /\ chkPc = "sleep"
    /\ ~evalFailed
    /\ evalStart
    /\ ~active
    /\ downEmails = 0
    /\ recEmails = 1

\* C6: at most one "down" email per active episode and at most one
\* "recovered" email per recovery, whatever the notification outcomes.
C6_AtMostOneEmailPerEpisode == downEmails <= 1 /\ recEmails <= 1

\* C7: a send that raises during an evaluation leaves `active` at its prior
\* value and does not end the periodic loop, so that the transition is
\* retried on a later tick.
C7_FailedSendKeepsLoopRunning ==
    evalFailed => (active = evalStart /\ chkPc # "dead")

\* C8 as stated: while `enabled` is false no step of check_heartbeat changes
\* `active` or sends a notification.
C8_DisabledNothingChanges ==
    [][~enabled =>
          (active' = active /\ Len(evalSent') <= Len(evalSent))]_vars

\* C8 as amended: an evaluation that begins while `enabled` is false returns
\* at once: with no evaluation in flight and `enabled` false, no step changes
\* `active`, sends a notification or gets past the `enabled` check.
C8_DisabledEvaluationIsNoOp ==
    [][(~enabled /\ chkPc \in {"sleep", "dead"}) =>
          /\ active' = active
          /\ Len(evalSent') <= Len(evalSent)
          /\ chkPc' \in {"sleep", "dead"}]_vars

\* C8 witness: the evaluation that has just run read `enabled` false while
\* the alert was active and a recent ping would have cleared it.
C8_Witness ==
    /\ ~enabled
    /\ ~evalEnabled
    /\ active
    /\ chkPc = "sleep"
    /\ chkSleep = CheckInterval
    /\ Truthy(last_seen)
    /\ now - last_seen < MAX_TIME_TO_ALERT

\* The grace period has run out at time `at` for a monitor started at `sa`
\* that was last pinged at `seen` (None: never).
GraceOver(seen, sa, at) ==
    IF seen = None THEN at - sa >= MAX_TIME_TO_ALERT
    ELSE at - seen > MAX_TIME_TO_ALERT

\* The "down" notifications.
DownSends == {"email_down", "slack_down"}

\* C19 as stated: an enabled evaluation that begins Inactive has made the
\* monitor Active, when it ends, exactly when the grace period had run out
\* as it began; and no "down" email is sent by an evaluation for which it
\* had not.
C19_ActiveIffGraceOver ==
    /\ (evalAt # None /\ evalEnabled /\ ~evalStart /\ chkPc \in {"sleep", "dead"})
           => (active <=> GraceOver(evalSeen, started_at, evalAt))
    /\ (\E i \in 1..Len(evalSent) : evalSent[i] \in DownSends)
           => GraceOver(evalSeen, started_at, evalAt)

\* C19 as amended: an enabled evaluation that begins Inactive takes the
\* "down" path exactly when the grace period had run out as it began; when
\* it ends the monitor is Active exactly when it took that path and no send
\* raised; and no "down" notification is sent by an evaluation that is
\* disabled, begins Active, or begins before the grace period has run out.
C19_DownPathIffGraceOver ==
    /\ (evalAt # None /\ evalEnabled /\ ~evalStart) =>
           LET due == GraceOver(evalSeen, started_at, evalAt)
               took == chkPc \in DownSends \/ evalFailed \/ evalSent # <<>>
           IN  /\ took <=> due
               /\ chkPc \in {"sleep", "dead"} =>
                      (active <=> (due /\ ~evalFailed))
               /\ \A i \in 1..Len(evalSent) : evalSent[i] \in DownSends
    /\ (chkPc \in DownSends \/ \E i \in 1..Len(evalSent) : evalSent[i] \in DownSends)
           => /\ evalEnabled
              /\ ~evalStart
              /\ GraceOver(evalSeen, started_at, evalAt)

\* C19 witness: the monitor was pinged, an evaluation that began more than
\* the grace period later has sent the "down" notification, and the monitor
\* is Active.
C19_Witness ==
    /\ evalEnabled
    /\ ~evalStart
    /\ evalSeen # None
    /\ evalAt - evalSeen > MAX_TIME_TO_ALERT
    /\ evalSent = <<"email_down", "slack_down">>
    /\ chkPc = "sleep"
    /\ active

\* The "recovered" notifications.
RecoveredSends == {"email_rec", "slack_rec"}

\* C20: an evaluation starts or sends a "recovered" notification only when
\* a ping has come after the latest evaluation that took the "down" path
\* began; and while the monitor is Active and was never pinged it stays
\* Active and no evaluation sends anything.
C20_NoSpuriousRecovery ==
    [][/\ ( \/ chkPc' \in RecoveredSends
            \/ \E i \in 1..Len(evalSent') : evalSent'[i] \in RecoveredSends )
          => pingSinceDown'
       /\ (active /\ last_seen = None /\ last_seen' = None)
          => /\ active'
             /\ chkPc' \in {"sleep", "dead"}
             /\ Len(evalSent') <= Len(evalSent)]_vars

\* C20 witness: an alert raised while the monitor had never been pinged has
\* been cleared by an evaluation that read a recent ping.
C20_Witness ==
    /\ downEmails = 0
    /\ recEmails = 1
    /\ evalStart
    /\ ~active
    /\ evalSent = <<"email_rec", "slack_rec">>
    /\ pingSinceDown
    /\ evalSeen # None
    /\ evalAt - evalSeen < MAX_TIME_TO_ALERT
    /\ evalSeen - started_at >= MAX_TIME_TO_ALERT

(***************************************************************************)
(* Properties of the Alert State Machine when pings stop (AlertSpec).      *)
(***************************************************************************)
\* The time the clock takes to run a sleep of `left` seconds down.
SleepTicks(left) == ((left + Tick - 1) \div Tick) * Tick

\* The clock does not end before the evaluation that finds the grace period
\* run out: the pending sleep ends within the clock, and the grace period
\* runs out one sleep of the loop before the clock ends.
GraceEndsInTime ==
    /\ now + SleepTicks(chkSleep) <= ClockEnd
    /\ GraceOver(last_seen, started_at, ClockEnd - SleepTicks(CheckInterval))

\* C21: with the monitor enabled and sends that succeed, an evaluation that
\* begins Inactive once the grace period has run out sends the "down"
\* notification; and once pings have stopped, an Inactive monitor between
\* two evaluations becomes Active, its latest evaluation having sent the
\* "down" notification with the grace period run out, provided the clock
\* of the model does not end first.
C21_EventualAlert ==
    /\ []( ( /\ evalAt # None
             /\ ~evalStart
             /\ GraceOver(evalSeen, started_at, evalAt) )
           => (chkPc \in DownSends \/ active) )
    /\ ( /\ chkPc = "sleep"
         /\ ~active
         /\ now > PingEnd
         /\ GraceEndsInTime )
       ~> ( /\ active
            /\ evalSent = <<"email_down", "slack_down">>
            /\ GraceOver(evalSeen, started_at, evalAt) )

\* C21 witness: the monitor was pinged, pings have stopped, and an
\* evaluation that began after they stopped has raised the alert.
C21_Witness ==
    /\ active
    /\ evalSent = <<"email_down", "slack_down">>
    /\ evalSeen # None
    /\ evalAt > PingEnd
    /\ ~evalStart
    /\ chkPc = "sleep"

RECURSIVE TrailingFailures(_)
TrailingFailures(h) ==
    IF h = <<>> \/ h[Len(h)] = TRUE THEN 0
    ELSE 1 + TrailingFailures(SubSeq(h, 1, Len(h) - 1))

\* C18: in every state, between the two probes of a cycle included, both
\* Triggers stand at the results of the same completed cycles: the
\* histories of the two targets have the same length and each count is the
\* number of failures that end its target's history (TriggerN or more when
\* the whole remembered history failed).
C18_BothTriggersOfSameCycle ==
    /\ Len(probes["outside"]) = Len(probes["lco"])
    /\ \A l \in Labels :
           LET failed == TrailingFailures(probes[l])
           IN  IF failed < TriggerN THEN network_status[l] = failed
               ELSE network_status[l] >= TriggerN

\* C18 witness: the loop is between the two probes of its third cycle, the
\* internet probe of this cycle succeeded after two failed cycles, and both
\* Triggers still stand at the two failures.
C18_Witness ==
    /\ netPc = "probe_lco"
    /\ internet = TRUE
    /\ probes["outside"] = <<FALSE, FALSE>>
    /\ network_status["outside"] = 2
    /\ network_status["lco"] = 2

\* C10: a probe that raises is taken as a failed observation and the
\* update_network_status loop goes on: the task never ends.
C10_ProbeErrorSurvived == netPc # "dead"

====
